---- MODULE Spec2Model ----
(***************************************************************************)
(* State-machine model of the RAG service: the Express handlers of         *)
(* src/mastra/index.ts, the ingestion workflow (document-processing.ts),   *)
(* the pgvector adapter (tools/vector-search) and the chat agent           *)
(* (rag-agent.ts).  Every await of the handlers is a point where another   *)
(* request's handler may run, so each action is the code between two       *)
(* awaits of one request.                                                  *)
(***************************************************************************)
EXTENDS Integers, Sequences, FiniteSets, Bags, TLC

VARIABLES
    server,     \* "starting" until initializeServices has run, then "listening"
    dbReady,    \* the document_chunks table exists
    files,      \* documents directory: pdf file name -> text (its paragraphs)
    store,      \* table document_chunks: a bag of rows
    vindex,     \* LibSQLVector: index name -> whether it exists, ids upserted
    req,        \* per client: the request it sends and its handler's locals
    api,        \* last direct call of a public method and its outcome
    ui          \* the Chat component: its state and the position of handleSubmit

vars == <<server, dbReady, files, store, vindex, req, api, ui>>

-----------------------------------------------------------------------------
(* Bounds of the model *)

MaxChunks == 2      \* paragraphs (chunks) per document
MaxTokens == 2      \* deltas in one completion stream
MaxLimit == 3       \* largest limit passed to a direct searchSimilarChunks call

(* Program constants *)

TopK == 5           \* limit generateResponse passes to searchSimilarChunks
Scale == 5 * 5      \* embeddings have norm 5; distances are kept in units of 1/25

\* the clients; each sends one request, at any time
Clients == {"c1", "c2"}
Listing == <<"a.pdf", "notes.txt", "a-chunk-1.pdf">>
Texts == {"x", "y"}
\* the texts a file of the documents directory may hold
LongText == [j \in 1..MaxChunks |-> IF j = 1 THEN "x" ELSE "y"]
ShortText == <<"y">>
Versions == {LongText, ShortText}
EmbSpace == {<<5, 0>>, <<3, 4>>, <<4, 3>>, <<0, 5>>}
NoIndex == [exists |-> FALSE, ids |-> {}]
NoPage == "NoPage"
NoContent == "NoContent"
Deltas == {"A", NoContent}

Min(a, b) == IF a < b THEN a ELSE b

SeqsUpTo(S, n) == UNION {[1..m -> S] : m \in 0..n}

-----------------------------------------------------------------------------
(* Strings and paths *)

EndsWith(s, suffix) ==
    /\ Len(s) >= Len(suffix)
    /\ SubSeq(s, Len(s) - Len(suffix) + 1, Len(s)) = suffix

\* path.basename(filePath, '.pdf'): the extension is stripped unless it is
\* the whole base name
Basename(file) ==
    IF EndsWith(file, ".pdf") /\ Len(file) > Len(".pdf")
    THEN SubSeq(file, 1, Len(file) - Len(".pdf"))
    ELSE file

RECURSIVE FilterPdf(_)
FilterPdf(fs) ==
    IF fs = <<>> THEN <<>>
    ELSE IF EndsWith(Head(fs), ".pdf")
         THEN <<Head(fs)>> \o FilterPdf(Tail(fs))
         ELSE FilterPdf(Tail(fs))

PdfFiles == {Listing[j] : j \in {j \in 1..Len(Listing) : EndsWith(Listing[j], ".pdf")}}
DocNames == {Basename(f) : f \in PdfFiles}

ChunkIdNoIndex(documentName, i) == documentName \o "-chunk-"

\* `${documentName}-chunk-${i}`
ChunkId(documentName, i) == documentName \o "-chunk-" \o ToString(i)

\* mDocument.chunk(): one chunk per paragraph, carrying the document's
\* metadata (which has no page)
ChunkDoc(text) == [j \in 1..Len(text) |-> [text |-> text[j], page |-> NoPage]]

\* chunk.metadata?.page || 1
PageOf(chunk) == IF chunk.page = NoPage \/ chunk.page = 0 THEN 1 ELSE chunk.page

\* embed({model: text-embedding-3-small, value}): the model's vector for a text
Embed(text) == IF text = "x" THEN <<5, 0>> ELSE <<3, 4>>

\* openai.embeddings.create({model: text-embedding-ada-002, input}).data[0].embedding
QueryEmbedding(message) == IF message = "q1" THEN <<4, 3>> ELSE <<0, 5>>

-----------------------------------------------------------------------------
(* The document_chunks table *)

Rows(s) == BagToSet(s)
RowIds(s) == {r.id : r \in Rows(s)}
RowCount(s) == BagCardinality(s)

StoreChunkInsertOnly(s, chunk) == s (+) SetToBag({chunk})

StoreChunkReplace(s, chunk) ==
    IF \E r \in Rows(s) : r.id = chunk.id
    THEN LET old == CHOOSE r \in Rows(s) : r.id = chunk.id
         IN  (s (-) SetToBag({old})) (+) SetToBag({chunk})
    ELSE s (+) SetToBag({chunk})

\* INSERT ... ON CONFLICT (id) DO UPDATE SET content, embedding
StoreChunk(s, chunk) ==
    IF \E r \in Rows(s) : r.id = chunk.id
    THEN LET old == CHOOSE r \in Rows(s) : r.id = chunk.id
             new == [old EXCEPT !.content = chunk.content,
                                !.embedding = chunk.embedding]
         IN  (s (-) SetToBag({old})) (+) SetToBag({new})
    ELSE s (+) SetToBag({chunk})

Dot(u, v) == u[1] * v[1] + u[2] * v[2]

\* embedding <=> $1 for embeddings of norm 5, in units of 1/Scale
CosineDistance(u, v) == Scale - Dot(u, v)

SimilarityOf(u, v) == Scale - CosineDistance(u, v)

SearchResult(r, q) ==
    [id |-> r.id, content |-> r.content, document |-> r.document,
     page |-> r.page, similarity |-> SimilarityOf(r.embedding, q)]

OrderFirstDesc(rows, q) ==
    {r \in rows : \A o \in rows :
        CosineDistance(r.embedding, q) >= CosineDistance(o.embedding, q)}

\* the rows that may come first under ORDER BY embedding <=> $1
OrderFirst(rows, q) ==
    {r \in rows : \A o \in rows :
        CosineDistance(r.embedding, q) <= CosineDistance(o.embedding, q)}

\* every order ORDER BY may produce (ties in any order)
RECURSIVE OrderBy(_, _)
OrderBy(rows, q) ==
    IF rows = {} THEN {<<>>}
    ELSE UNION {{<<r>> \o t : t \in OrderBy(rows \ {r}, q)} : r \in OrderFirst(rows, q)}

LimitRows(s, limit) == SubSeq(s, 1, Min(limit, Len(s)))

\* SELECT ..., 1 - (embedding <=> $1) AS similarity ... ORDER BY ... LIMIT $2
SearchSimilarChunks(s, q, limit) ==
    {[j \in 1..Len(t) |-> SearchResult(t[j], q)] :
        t \in {LimitRows(o, limit) : o \in OrderBy(Rows(s), q)}}

\* SELECT DISTINCT document
GetProcessedDocuments(s) == {r.document : r \in Rows(s)}

-----------------------------------------------------------------------------
(* Requests *)

\* body: the values sent; wire: how each was framed on the wire ("json" for
\* a JSON text, "data" for a `data: <json>\n\n` line)
NoRes == [status |-> 0, headersSent |-> FALSE, ctype |-> "", body |-> <<>>,
          wire |-> <<>>, ended |-> FALSE]

\* JSON values a request body may carry as message
JsValue(t, v) == [t |-> t, v |-> v]
Missing == JsValue("undefined", "")

NoReq ==
    [kind |-> "none", pc |-> "idle",
     pdfFiles |-> <<>>, k |-> 0, buf |-> <<>>, chunks |-> <<>>, i |-> 0,
     processedChunks |-> 0, embeddings |-> <<>>, results |-> <<>>,
     message |-> Missing, sse |-> FALSE, queryEmbedding |-> <<>>,
     relevantChunks |-> <<>>, answer |-> "", stream |-> <<>>,
     response |-> "", calls |-> <<>>, res |-> NoRes]

\* res.status(code).json(body): Content-Type is set only when none is set yet
Json(res, code, body) ==
    [res EXCEPT !.status = code, !.headersSent = TRUE,
                !.ctype = IF res.ctype = "" THEN "application/json" ELSE res.ctype,
                !.body = Append(res.body, body),
                !.wire = Append(res.wire, "json"), !.ended = TRUE]

CanStart(c) ==
    /\ server = "listening"
    /\ req[c].pc = "idle"

Unchanged_env == UNCHANGED <<server, dbReady, files, api, ui>>

-----------------------------------------------------------------------------
(* Startup *)

\* startServer -> initializeServices: a failure of initializeDatabase is
\* logged and the server listens anyway
InitializeServices ==
    /\ server = "starting"
    /\ server' = "listening"
    /\ \E ok \in BOOLEAN : dbReady' = ok
    /\ UNCHANGED <<files, store, vindex, req, api, ui>>

\* the environment rewrites a PDF of the documents directory
EditFile ==
    /\ \E f \in PdfFiles, t \in Versions :
          /\ t # files[f]
          /\ files' = [files EXCEPT ![f] = t]
    /\ UNCHANGED <<server, dbReady, store, vindex, req, api, ui>>

-----------------------------------------------------------------------------
(* POST /api/process-documents: processAllDocuments and processDocument *)

ClearDoc(r) ==
    [r EXCEPT !.buf = <<>>, !.chunks = <<>>, !.i = 0, !.processedChunks = 0,
              !.embeddings = <<>>]

DocName(r) == Basename(r.pdfFiles[r.k])

\* res.json({message, results, timestamp})
RespondIngest(r) ==
    [ClearDoc(r) EXCEPT
        !.pc = "done",
        !.res = Json(r.res, 200, [message |-> "Document processing completed",
                                  results |-> r.results])]

FailDocPropagate(r) == RespondIngest(r)

FailDocCount(r) ==
    [ClearDoc(r) EXCEPT
        !.results = Append(r.results,
            [name |-> DocName(r), chunks |-> r.processedChunks, status |-> "error"]),
        !.pc = "delay"]

\* the catch of processDocument, then results.push and the delay
FailDoc(r) ==
    [ClearDoc(r) EXCEPT
        !.results = Append(r.results,
            [name |-> DocName(r), chunks |-> 0, status |-> "error"]),
        !.pc = "delay"]

DocProcessedNoDelay(r) ==
    LET d == [ClearDoc(r) EXCEPT
                 !.results = Append(r.results,
                     [name |-> DocName(r), chunks |-> r.processedChunks,
                      status |-> "processed"])]
    IN  IF r.k < Len(r.pdfFiles)
        THEN [d EXCEPT !.k = r.k + 1, !.pc = "parse",
                       !.buf = files[r.pdfFiles[r.k + 1]]]
        ELSE [d EXCEPT !.pc = "delay"]

\* the return of processDocument, then results.push and the delay
DocProcessed(r) ==
    [ClearDoc(r) EXCEPT
        !.results = Append(r.results,
            [name |-> DocName(r), chunks |-> r.processedChunks,
             status |-> "processed"]),
        !.pc = "delay"]

\* processDocument up to its first await: readFileSync, then pdfParse is issued
EnterDoc(r, readOk) ==
    IF readOk
    THEN [ClearDoc(r) EXCEPT !.pc = "parse", !.buf = files[r.pdfFiles[r.k]]]
    ELSE FailDoc(r)

LoopHeadEarly(r) == [r EXCEPT !.pc = "upsert"]

\* the loop head: the next embed is issued, or the batch upsert
LoopHead(r) ==
    IF r.i < Len(r.chunks) THEN [r EXCEPT !.pc = "embed"]
    ELSE [r EXCEPT !.pc = "upsert"]

StartIngest(c) ==
    /\ CanStart(c)
    /\ \E exists \in BOOLEAN, listOk \in BOOLEAN, readOk \in BOOLEAN :
          LET r0 == [NoReq EXCEPT !.kind = "ingest"] IN
          req' = [req EXCEPT ![c] =
              IF ~exists
              THEN [r0 EXCEPT !.pc = "done",
                              !.res = Json(NoRes, 400,
                                  [error |-> "Documents directory not found"])]
              ELSE IF ~listOk \/ FilterPdf(Listing) = <<>>
              THEN RespondIngest(r0)
              ELSE EnterDoc([r0 EXCEPT !.pdfFiles = FilterPdf(Listing), !.k = 1],
                            readOk)]
    /\ UNCHANGED <<store, vindex>>
    /\ Unchanged_env

\* await pdfParse(fileBuffer); new MDocument; chunk is issued
ParseDone(c) ==
    /\ req[c].pc = "parse"
    /\ \E ok \in BOOLEAN :
          req' = [req EXCEPT ![c] =
              IF ok THEN [req[c] EXCEPT !.pc = "chunk"] ELSE FailDoc(req[c])]
    /\ UNCHANGED <<store, vindex>>
    /\ Unchanged_env

\* await mDocument.chunk(...); createIndex is issued
ChunkDone(c) ==
    /\ req[c].pc = "chunk"
    /\ \E ok \in BOOLEAN :
          req' = [req EXCEPT ![c] =
              IF ok THEN [req[c] EXCEPT !.pc = "createIndex",
                                        !.chunks = ChunkDoc(req[c].buf)]
              ELSE FailDoc(req[c])]
    /\ UNCHANGED <<store, vindex>>
    /\ Unchanged_env

\* await vectorStore.createIndex: an 'already exists' error is swallowed,
\* any other error fails the document
CreateIndexDone(c) ==
    /\ req[c].pc = "createIndex"
    /\ LET r == req[c] IN
       \E outcome \in {"ok", "exists", "error"} :
          \/ /\ outcome = "ok"
             /\ vindex' = [vindex EXCEPT ![DocName(r)].exists = TRUE]
             /\ req' = [req EXCEPT ![c] = LoopHead(r)]
          \/ /\ outcome = "exists"
             /\ vindex[DocName(r)].exists
             /\ req' = [req EXCEPT ![c] = LoopHead(r)]
             /\ UNCHANGED vindex
          \/ /\ outcome = "error"
             /\ req' = [req EXCEPT ![c] = FailDoc(r)]
             /\ UNCHANGED vindex
    /\ UNCHANGED store
    /\ Unchanged_env

\* await embed(chunk.text); embeddings.push; storeChunk is issued
EmbedDone(c) ==
    /\ req[c].pc = "embed"
    /\ LET r == req[c] IN
       \/ req' = [req EXCEPT ![c] =
              [r EXCEPT !.pc = "store",
                        !.embeddings = Append(r.embeddings,
                                              Embed(r.chunks[r.i + 1].text))]]
       \/ req' = [req EXCEPT ![c] = FailDoc(r)]
    /\ UNCHANGED <<store, vindex>>
    /\ Unchanged_env

\* the documentChunk of iteration i
DocumentChunk(r) ==
    [id |-> ChunkId(DocName(r), r.i),
     content |-> r.chunks[r.i + 1].text,
     document |-> DocName(r),
     page |-> PageOf(r.chunks[r.i + 1]),
     embedding |-> r.embeddings[r.i + 1]]

\* await vectorSearch.storeChunk(documentChunk); processedChunks++; i++
StoreDone(c) ==
    /\ req[c].pc = "store"
    /\ LET r == req[c] IN
       \/ /\ dbReady
          /\ store' = StoreChunk(store, DocumentChunk(r))
          /\ req' = [req EXCEPT ![c] =
                 LoopHead([r EXCEPT !.processedChunks = r.processedChunks + 1,
                                    !.i = r.i + 1])]
       \/ /\ req' = [req EXCEPT ![c] = FailDoc(r)]
          /\ UNCHANGED store
    /\ UNCHANGED vindex
    /\ Unchanged_env

\* vectorIds: `${documentName}-chunk-${i}` for every embedding
VectorIds(r) == {ChunkId(DocName(r), j) : j \in 0..(Len(r.embeddings) - 1)}

\* await vectorStore.upsert({indexName, vectors}); return
UpsertDone(c) ==
    /\ req[c].pc = "upsert"
    /\ LET r == req[c] IN
       \/ /\ vindex[DocName(r)].exists
          /\ vindex' = [vindex EXCEPT ![DocName(r)].ids = @ \cup VectorIds(r)]
          /\ req' = [req EXCEPT ![c] = DocProcessed(r)]
       \/ /\ req' = [req EXCEPT ![c] = FailDoc(r)]
          /\ UNCHANGED vindex
    /\ UNCHANGED store
    /\ Unchanged_env

\* the 100 ms delay elapses: the next file, or processAllDocuments returns
\* and the handler answers
DelayDone(c) ==
    /\ req[c].pc = "delay"
    /\ LET r == req[c] IN
       IF r.k < Len(r.pdfFiles)
       THEN \E readOk \in BOOLEAN :
               req' = [req EXCEPT ![c] = EnterDoc([r EXCEPT !.k = r.k + 1], readOk)]
       ELSE req' = [req EXCEPT ![c] = RespondIngest(r)]
    /\ UNCHANGED <<store, vindex>>
    /\ Unchanged_env

-----------------------------------------------------------------------------
(* POST /api/chat: the handler and RAGAgent.generateResponse *)

Bodies ==
    {Missing, JsValue("null", ""), JsValue("string", ""), JsValue("string", "q1"),
     JsValue("string", "q2"), JsValue("number", "0"), JsValue("number", "7"),
     JsValue("object", "{}")}

Falsy(m) ==
    \/ m.t \in {"undefined", "null"}
    \/ m.t = "string" /\ m.v = ""
    \/ m.t = "number" /\ m.v = "0"

ValidMessageTruthy(m) == ~Falsy(m)

\* !(!message || typeof message !== 'string')
ValidMessage(m) == ~(Falsy(m) \/ m.t # "string")

\* res.write(`data: ${JSON.stringify(frame)}\n\n`)
Write(res, frame) ==
    [res EXCEPT !.status = IF res.headersSent THEN res.status ELSE 200,
                !.headersSent = TRUE,
                !.body = Append(res.body, frame),
                !.wire = Append(res.wire, "data")]

End(res) == [res EXCEPT !.ended = TRUE]

ClearChat(r) ==
    [r EXCEPT !.queryEmbedding = <<>>, !.relevantChunks = <<>>, !.answer = "",
              !.stream = <<>>, !.response = ""]

\* {error, details: error.message}
ErrorBody == [error |-> "Failed to generate response", details |-> "error.message"]

ChatFailFrame(r) ==
    [ClearChat(r) EXCEPT
        !.pc = "done",
        !.res = IF r.res.headersSent \/ r.sse
                THEN End(Write(r.res, [error |-> "Failed to generate response",
                                       done |-> TRUE]))
                ELSE Json(r.res, 500, ErrorBody)]

\* the catch of the chat handler
ChatFail(r) ==
    [ClearChat(r) EXCEPT
        !.pc = "done",
        !.res = IF r.res.headersSent
                THEN End(Write(r.res, [error |-> "Failed to generate response",
                                       done |-> TRUE]))
                ELSE Json(r.res, 500, ErrorBody)]

SseFrameNotDone(r) ==
    [chunk |-> r.response, done |-> FALSE, sources |-> r.relevantChunks]

\* {chunk: response, done: true, sources}
SseFrame(r) == [chunk |-> r.response, done |-> TRUE, sources |-> r.relevantChunks]

\* generateResponse has returned {response, sources: relevantChunks}
ChatRespond(r) ==
    [ClearChat(r) EXCEPT
        !.pc = "done",
        !.res = IF ~r.sse
                THEN Json(r.res, 200, [response |-> r.response,
                                       sources |-> r.relevantChunks])
                ELSE End(Write(r.res, SseFrame(r)))]

\* the handler up to its first await, for a body's message and whether the
\* Accept header is exactly text/event-stream
ChatEnter(m, sse) ==
    LET r0 == [NoReq EXCEPT !.kind = "chat", !.message = m, !.sse = sse] IN
    IF ~ValidMessage(m)
    THEN [r0 EXCEPT !.pc = "done",
                    !.res = Json(NoRes, 400,
                        [error |-> "Invalid request: message is required and must be a string"])]
    ELSE [r0 EXCEPT !.pc = "qembed",
                    !.calls = <<"embed">>,
                    !.res.ctype = IF sse THEN "text/event-stream" ELSE ""]

StartChat(c) ==
    /\ CanStart(c)
    /\ \E m \in Bodies, sse \in BOOLEAN :
          req' = [req EXCEPT ![c] = ChatEnter(m, sse)]
    /\ UNCHANGED <<store, vindex>>
    /\ Unchanged_env

\* await this.openai.embeddings.create(...); searchSimilarChunks is issued
QueryEmbedDone(c) ==
    /\ req[c].pc = "qembed"
    /\ LET r == req[c] IN
       \E ok \in BOOLEAN :
          req' = [req EXCEPT ![c] =
              IF ok
              THEN [r EXCEPT !.pc = "search",
                             !.queryEmbedding = QueryEmbedding(r.message.v),
                             !.calls = Append(r.calls, "search")]
              ELSE ChatFail(r)]
    /\ UNCHANGED <<store, vindex>>
    /\ Unchanged_env

RetrievalFailedContinue(r) ==
    [r EXCEPT !.pc = "complete", !.relevantChunks = <<>>,
              !.calls = Append(r.calls, "complete")]

\* searchSimilarChunks rejects: generateResponse rejects, the handler catches
RetrievalFailed(r) == ChatFail(r)

\* await this.vectorSearch.searchSimilarChunks(queryEmbedding, 5); the prompt
\* is built and the completion is issued
SearchDone(c) ==
    /\ req[c].pc = "search"
    /\ LET r == req[c] IN
       \/ /\ dbReady
          /\ \E found \in SearchSimilarChunks(store, r.queryEmbedding, TopK) :
                req' = [req EXCEPT ![c] =
                    [r EXCEPT !.pc = "complete",
                              !.relevantChunks = found,
                              !.calls = Append(r.calls, "complete")]]
       \/ req' = [req EXCEPT ![c] = RetrievalFailed(r)]
    /\ UNCHANGED <<store, vindex>>
    /\ Unchanged_env

\* chunk.choices[0]?.delta?.content || ''
DeltaContent(d) == IF d = NoContent THEN "" ELSE d

\* the text the model generates, delivered as the deltas of a stream
RECURSIVE AnswerOf(_)
AnswerOf(s) == IF s = <<>> THEN "" ELSE DeltaContent(Head(s)) \o AnswerOf(Tail(s))

\* await this.openai.chat.completions.create({..., stream: true})
CompletionDone(c) ==
    /\ req[c].pc = "complete"
    /\ LET r == req[c] IN
       \/ \E s \in SeqsUpTo(Deltas, MaxTokens) :
             req' = [req EXCEPT ![c] =
                 [r EXCEPT !.pc = "stream", !.stream = s, !.answer = AnswerOf(s)]]
       \/ req' = [req EXCEPT ![c] = ChatFail(r)]
    /\ UNCHANGED <<store, vindex>>
    /\ Unchanged_env

OnDeltaOverwrite(r, d) ==
    [r EXCEPT !.response = DeltaContent(d), !.stream = Tail(r.stream)]

\* response += content
OnDelta(r, d) ==
    [r EXCEPT !.response = r.response \o DeltaContent(d), !.stream = Tail(r.stream)]

\* one iteration of for await (const chunk of completion)
StreamNext(c) ==
    /\ req[c].pc = "stream"
    /\ req[c].stream # <<>>
    /\ LET r == req[c] IN
       \/ req' = [req EXCEPT ![c] = OnDelta(r, Head(r.stream))]
       \/ req' = [req EXCEPT ![c] = ChatFail(r)]
    /\ UNCHANGED <<store, vindex>>
    /\ Unchanged_env

\* the stream ends: generateResponse returns and the handler answers
StreamEnd(c) ==
    /\ req[c].pc = "stream"
    /\ req[c].stream = <<>>
    /\ LET r == req[c] IN
       \/ req' = [req EXCEPT ![c] = ChatRespond(r)]
       \/ req' = [req EXCEPT ![c] = ChatFail(r)]
    /\ UNCHANGED <<store, vindex>>
    /\ Unchanged_env

-----------------------------------------------------------------------------
(* The Chat component of the frontend: handleSubmit and processStream *)

\* the connection the browser's fetch uses
UiClient == "c2"

\* what the user may have typed when submitting
UiInputs == {"", "  ", "q1", " q2 "}

\* the Accept header of fetch('/api/chat', {method, headers: {'Content-Type'},
\* body}): none is given, so the browser sends its default
UiAccept == "*/*"

NoUi == [pc |-> "idle", messages |-> <<>>, isLoading |-> FALSE, nread |-> 0,
         assistantMessage |-> "", sources |-> <<>>]

RECURSIVE TrimStart(_)
TrimStart(str) ==
    IF Len(str) > 0 /\ SubSeq(str, 1, 1) = " "
    THEN TrimStart(SubSeq(str, 2, Len(str)))
    ELSE str

RECURSIVE TrimEnd(_)
TrimEnd(str) ==
    IF Len(str) > 0 /\ SubSeq(str, Len(str), Len(str)) = " "
    THEN TrimEnd(SubSeq(str, 1, Len(str) - 1))
    ELSE str

\* input.trim()
Trim(str) == TrimEnd(TrimStart(str))

ChatMessage(role, content) == [role |-> role, content |-> content, sources |-> <<>>]

LastIsAssistant(messages) ==
    Len(messages) > 0 /\ messages[Len(messages)].role = "assistant"

\* setMessages in processStream: the last assistant message gets the text so
\* far, or a new assistant message is pushed
ShowAssistant(messages, text) ==
    IF LastIsAssistant(messages)
    THEN [messages EXCEPT ![Len(messages)].content = text]
    ELSE Append(messages, ChatMessage("assistant", text))

\* setMessages in the finally of processStream
ShowSources(messages, sources) ==
    IF Len(sources) > 0 /\ LastIsAssistant(messages)
    THEN [messages EXCEPT ![Len(messages)].sources = sources]
    ELSE messages

\* the catch of handleSubmit
UiError(u) ==
    [u EXCEPT !.pc = "done",
              !.messages = Append(u.messages, ChatMessage("assistant",
                  "Sorry, I encountered an error processing your request.")),
              !.isLoading = FALSE]

\* handleSubmit up to await fetch: the guard, the user message, the request
UiSubmit ==
    /\ ui.pc = "idle"
    /\ CanStart(UiClient)
    /\ \E input \in UiInputs :
          /\ ~(Trim(input) = "" \/ ui.isLoading)
          /\ ui' = [ui EXCEPT !.pc = "fetch",
                              !.messages = Append(ui.messages,
                                                  ChatMessage("user", Trim(input))),
                              !.isLoading = TRUE]
          /\ req' = [req EXCEPT ![UiClient] =
                 ChatEnter(JsValue("string", Trim(input)),
                           UiAccept = "text/event-stream")]
    /\ UNCHANGED <<server, dbReady, files, store, vindex, api>>

\* await fetch resolves with the response's status and headers
UiFetchDone ==
    /\ ui.pc = "fetch"
    /\ req[UiClient].res.headersSent
    /\ LET status == req[UiClient].res.status IN
       ui' = IF status \in 200..299
             THEN [ui EXCEPT !.pc = "read", !.nread = 0, !.assistantMessage = "",
                             !.sources = <<>>]
             ELSE UiError(ui)
    /\ UNCHANGED <<server, dbReady, files, store, vindex, req, api>>

\* the chunk of a parsed `data: ` line, '' when it has none
DataChunk(data) == IF "chunk" \in DOMAIN data THEN data.chunk ELSE ""

DataDone(data) == "done" \in DOMAIN data /\ data.done

\* data.sources || []
DataSources(data) == IF "sources" \in DOMAIN data THEN data.sources ELSE <<>>

\* one reader.read() of processStream: only lines that start with 'data: '
\* are parsed
UiRead ==
    /\ ui.pc = "read"
    /\ ui.nread < Len(req[UiClient].res.body)
    /\ LET j == ui.nread + 1
           data == req[UiClient].res.body[j]
           isData == req[UiClient].res.wire[j] = "data"
           text == ui.assistantMessage \o DataChunk(data)
       IN  ui' = IF ~isData THEN [ui EXCEPT !.nread = j]
                 ELSE [ui EXCEPT
                          !.nread = j,
                          !.assistantMessage =
                              IF DataChunk(data) # "" THEN text ELSE @,
                          !.messages =
                              IF DataChunk(data) # "" THEN ShowAssistant(@, text)
                              ELSE @,
                          !.sources =
                              IF DataDone(data) THEN DataSources(data) ELSE @]
    /\ UNCHANGED <<server, dbReady, files, store, vindex, req, api>>

\* reader.read() reports done; the finally of processStream
UiReadDone ==
    /\ ui.pc = "read"
    /\ ui.nread = Len(req[UiClient].res.body)
    /\ req[UiClient].res.ended
    /\ ui' = [ui EXCEPT !.pc = "done", !.isLoading = FALSE,
                        !.messages = ShowSources(ui.messages, ui.sources)]
    /\ UNCHANGED <<server, dbReady, files, store, vindex, req, api>>

UiStep ==
    \/ UiSubmit
    \/ UiFetchDone
    \/ UiRead
    \/ UiReadDone

-----------------------------------------------------------------------------
(* GET /api/processed-documents *)

StartDocs(c) ==
    /\ CanStart(c)
    /\ req' = [req EXCEPT ![c] = [NoReq EXCEPT !.kind = "docs", !.pc = "docs"]]
    /\ UNCHANGED <<store, vindex>>
    /\ Unchanged_env

\* await vectorSearch.getProcessedDocuments(), answered by the handler
DocsDone(c) ==
    /\ req[c].pc = "docs"
    /\ LET r == req[c] IN
       \/ /\ dbReady
          /\ req' = [req EXCEPT ![c] =
                 [r EXCEPT !.pc = "done",
                           !.res = Json(r.res, 200,
                               [documents |-> GetProcessedDocuments(store),
                                count |-> Cardinality(GetProcessedDocuments(store))])]]
       \/ req' = [req EXCEPT ![c] =
              [r EXCEPT !.pc = "done",
                        !.res = Json(r.res, 500,
                            [error |-> "Failed to fetch processed documents"])]]
    /\ UNCHANGED <<store, vindex>>
    /\ Unchanged_env

-----------------------------------------------------------------------------

Init ==
    /\ server = "starting"
    /\ dbReady = FALSE
    /\ files = [f \in PdfFiles |-> IF f = "a.pdf" THEN LongText ELSE ShortText]
    /\ store = EmptyBag
    /\ vindex = [d \in DocNames |-> NoIndex]
    /\ req = [c \in Clients |-> NoReq]
    /\ api = [op |-> "none"]
    /\ ui = NoUi

IngestStep(c) ==
    \/ StartIngest(c)
    \/ ParseDone(c)
    \/ ChunkDone(c)
    \/ CreateIndexDone(c)
    \/ EmbedDone(c)
    \/ StoreDone(c)
    \/ UpsertDone(c)
    \/ DelayDone(c)

\* the awaits of generateResponse
ChatRun(c) ==
    \/ QueryEmbedDone(c)
    \/ SearchDone(c)
    \/ CompletionDone(c)
    \/ StreamNext(c)
    \/ StreamEnd(c)

ChatStep(c) ==
    \/ StartChat(c)
    \/ ChatRun(c)

DocsStep(c) ==
    \/ StartDocs(c)
    \/ DocsDone(c)

\* the service under any workload
Next ==
    \/ InitializeServices
    \/ EditFile
    \/ \E c \in Clients : IngestStep(c) \/ ChatStep(c) \/ DocsStep(c)

Spec == Init /\ [][Next]_vars

\* the service under a workload of ingestion and listing requests
IngestNext ==
    \/ InitializeServices
    \/ EditFile
    \/ \E c \in Clients : IngestStep(c) \/ DocsStep(c)

IngestSpec == Init /\ [][IngestNext]_vars

\* the service under a workload of chat requests, with one ingesting client
ChatNext ==
    \/ InitializeServices
    \/ \E c \in Clients : ChatStep(c)
    \/ IngestStep("c1")

ChatSpec == Init /\ [][ChatNext]_vars

\* the same workload when every call generateResponse awaits settles
ChatLiveSpec == ChatSpec /\ \A c \in Clients : WF_vars(ChatRun(c))

\* the Chat component talking to the service, with one ingesting client
UiNext ==
    \/ InitializeServices
    \/ UiStep
    \/ ChatRun(UiClient)
    \/ IngestStep("c1")

UiSpec == Init /\ [][UiNext]_vars

-----------------------------------------------------------------------------
(* Direct calls of the public methods of VectorSearchTool and of the        *)
(* workflow, by a caller that awaits each call before the next             *)

Caller == "c1"

Thrown == [threw |-> TRUE, out |-> "none"]
Returned(v) == [threw |-> FALSE, out |-> v]

\* the outcome of each method, given whether its external call succeeded
StoreChunkOutcome(ok) == IF ok THEN Returned("void") ELSE Thrown
SearchSimilarChunksOutcome(ok, found) == IF ok THEN Returned(found) ELSE Thrown
GetProcessedDocumentsOutcome(ok, docs) == IF ok THEN Returned(docs) ELSE Thrown
InitializeDatabaseOutcome(ok) == IF ok THEN Returned("void") ELSE Thrown

SearchSimilarContentOutcome(ok, found) == IF ok THEN Returned(found) ELSE Returned({})
ListIndexesOutcome(ok, names) == IF ok THEN Returned(names) ELSE Returned({})

GetIndexStatsNoCatch(ok, stats) == IF ok THEN Returned(stats) ELSE Thrown

GetIndexStatsOutcome(ok, stats) == IF ok THEN Returned(stats) ELSE Returned("null")

ApiRecord(op, arg, ok, outcome) ==
    [op |-> op, arg |-> arg, failed |-> ~ok, threw |-> outcome.threw,
     out |-> outcome.out]

ApiIds == {ChunkId("a", 0), ChunkId("a", 1), ChunkId("b", 0)}

\* the chunks a direct caller stores
ApiChunks ==
    {[id |-> id, content |-> ce[1], document |-> dp[1], page |-> dp[2],
      embedding |-> ce[2]] :
        id \in ApiIds,
        ce \in {<<"x", <<5, 0>>>>, <<"y", <<3, 4>>>>, <<"y", <<0, 5>>>>},
        dp \in {<<"a", 1>>, <<"b", 2>>}}

DirectCall == req[Caller].pc \in {"idle", "done"}

ApiInitializeDatabase ==
    /\ DirectCall
    /\ \E ok \in BOOLEAN :
          /\ dbReady' = (dbReady \/ ok)
          /\ api' = ApiRecord("initializeDatabase", <<>>, ok,
                              InitializeDatabaseOutcome(ok))
    /\ UNCHANGED <<server, files, store, vindex, req, ui>>

ApiStoreChunk ==
    /\ DirectCall
    /\ req[Caller].pc = "idle"
    /\ \E chunk \in ApiChunks, ok \in BOOLEAN :
          /\ ok => dbReady
          /\ store' = IF ok THEN StoreChunk(store, chunk) ELSE store
          /\ api' = ApiRecord("storeChunk", chunk, ok, StoreChunkOutcome(ok))
    /\ UNCHANGED <<server, dbReady, files, vindex, req, ui>>

ApiSearchSimilarChunks ==
    /\ DirectCall
    /\ \E q \in EmbSpace, limit \in 0..MaxLimit :
          \/ /\ dbReady
             /\ \E found \in SearchSimilarChunks(store, q, limit) :
                   api' = ApiRecord("searchSimilarChunks",
                                    [embedding |-> q, limit |-> limit], TRUE,
                                    SearchSimilarChunksOutcome(TRUE, found))
          \/ api' = ApiRecord("searchSimilarChunks",
                              [embedding |-> q, limit |-> limit], FALSE,
                              SearchSimilarChunksOutcome(FALSE, <<>>))
    /\ UNCHANGED <<server, dbReady, files, store, vindex, req, ui>>

ApiGetProcessedDocuments ==
    /\ DirectCall
    /\ \E ok \in BOOLEAN :
          /\ ok => dbReady
          /\ api' = ApiRecord("getProcessedDocuments", <<>>, ok,
                 GetProcessedDocumentsOutcome(ok, GetProcessedDocuments(store)))
    /\ UNCHANGED <<server, dbReady, files, store, vindex, req, ui>>

\* searchSimilarContent(query, indexName, limit): embed, then vectorStore.query
ApiSearchSimilarContent ==
    /\ DirectCall
    /\ \E d \in DocNames, ok \in BOOLEAN :
          /\ ok => vindex[d].exists
          /\ \E found \in {f \in SUBSET vindex[d].ids :
                              Cardinality(f) = Min(TopK, Cardinality(vindex[d].ids))} :
                api' = ApiRecord("searchSimilarContent", d, ok,
                                 SearchSimilarContentOutcome(ok, found))
    /\ UNCHANGED <<server, dbReady, files, store, vindex, req, ui>>

ApiListIndexes ==
    /\ DirectCall
    /\ \E ok \in BOOLEAN :
          api' = ApiRecord("listIndexes", <<>>, ok,
                     ListIndexesOutcome(ok, {d \in DocNames : vindex[d].exists}))
    /\ UNCHANGED <<server, dbReady, files, store, vindex, req, ui>>

ApiGetIndexStats ==
    /\ DirectCall
    /\ \E d \in DocNames, ok \in BOOLEAN :
          /\ ok => vindex[d].exists
          /\ api' = ApiRecord("getIndexStats", d, ok,
                     GetIndexStatsOutcome(ok, [count |-> Cardinality(vindex[d].ids)]))
    /\ UNCHANGED <<server, dbReady, files, store, vindex, req, ui>>

ApiCall ==
    \/ ApiInitializeDatabase
    \/ ApiStoreChunk
    \/ ApiSearchSimilarChunks
    \/ ApiGetProcessedDocuments
    \/ ApiSearchSimilarContent
    \/ ApiListIndexes
    \/ ApiGetIndexStats

\* a caller of the public methods: direct calls, or one request through the
\* HTTP handlers
ApiNext ==
    \/ InitializeServices
    \/ ApiCall
    \/ /\ api.op = "none"
       /\ IngestStep(Caller) \/ ChatStep(Caller)

ApiSpec == Init /\ [][ApiNext]_vars

-----------------------------------------------------------------------------
(* Properties of ingestion *)

IngestPcs == {"parse", "chunk", "createIndex", "embed", "store", "upsert"}

LastResult(r) == r.results[Len(r.results)]

\* the rows of a document
RowsOf(s, d) == {r \in Rows(s) : r.document = d}

C1_Format ==
    \A r \in Rows(store) :
        /\ CopiesIn(r, store) = 1
        /\ \A o \in Rows(store) : o.id = r.id => o = r
        /\ \E i \in 0..(MaxChunks - 1) :
              r.id = r.document \o "-chunk-" \o ToString(i)
        /\ \A d \in DocNames, i \in 0..(MaxChunks - 1) :
              r.id = d \o "-chunk-" \o ToString(i) => r.document = d

C1_Written ==
    \A c \in Clients :
        req[c].pc = "store" /\ req'[c].processedChunks = req[c].processedChunks + 1
        => \E w \in Rows(store') :
              /\ w.id = Basename(req[c].pdfFiles[req[c].k]) \o "-chunk-"
                            \o ToString(req[c].processedChunks)
              /\ w.content = req[c].buf[req[c].processedChunks + 1]

\* C1: every row processDocument writes for document D at position i has id
\* D-chunk-i; in every state of document_chunks no two rows share an id and
\* an id determines its document and index.
C1_ChunkIds == []C1_Format /\ [][C1_Written]_vars

\* both documents are ingested: three rows, one of them of "a-chunk-1"
C1_Witness ==
    {"a-chunk-0", "a-chunk-1", "a-chunk-1-chunk-0"} \subseteq RowIds(store)

\* the rows of document d are exactly those of the chunk list
Ingested(s, d, chunks) ==
    {r.id : r \in RowsOf(s, d)}
        = {d \o "-chunk-" \o ToString(j) : j \in 0..(Len(chunks) - 1)}

ProbeChunks ==
    {[id |-> d \o "-chunk-" \o ToString(i), content |-> t, document |-> d,
      page |-> 1, embedding |-> Embed(t)] :
        d \in DocNames, i \in 0..(MaxChunks - 1), t \in Texts}

C2_Twice ==
    \A chunk \in ProbeChunks :
        StoreChunk(StoreChunk(store, chunk), chunk) = StoreChunk(store, chunk)

C2_Reingest ==
    \A c \in Clients :
        LET r == req[c] IN
        (/\ r.pc = "store"
         /\ req'[c] # r
         /\ Ingested(store, Basename(r.pdfFiles[r.k]), r.chunks))
        => /\ RowIds(store') = RowIds(store)
           /\ RowCount(store') = RowCount(store)

\* C2: storeChunk applied twice with the same chunk gives the store of one
\* application, and a storeChunk of a run that re-ingests a document whose
\* chunk ids are already the rows of that document leaves the set of ids and
\* the number of rows unchanged.
C2_UpsertIdempotent == []C2_Twice /\ [][C2_Reingest]_vars

\* a second run has stored every chunk of document "a" again
C2_Witness ==
    \E c \in Clients :
        /\ req[c].kind = "ingest"
        /\ req[c].pc = "upsert"
        /\ req[c].k = 1
        /\ req[c].processedChunks = Len(req[c].chunks)
        /\ req[c].processedChunks > 0
        /\ \E o \in Clients \ {c} :
              /\ req[o].pc = "done"
              /\ req[o].kind = "ingest"
              /\ Len(req[o].results) > 0
              /\ req[o].results[1] =
                    [name |-> "a", chunks |-> req[c].processedChunks,
                     status |-> "processed"]

ExpectedNames == <<"a", "a-chunk-1">>

C4_Results ==
    \A c \in Clients :
        LET r == req[c] IN
        r.kind = "ingest" /\ r.pdfFiles # <<>> =>
            /\ r.pc \in IngestPcs => Len(r.results) = r.k - 1
            /\ r.pc = "delay" => Len(r.results) = r.k
            /\ \A j \in 1..Len(r.results) : r.results[j].name = ExpectedNames[j]
            /\ r.pc = "done" =>
                  /\ r.res.status = 200
                  /\ Len(r.res.body) = 1
                  /\ r.res.body[1].results = r.results
                  /\ Len(r.results) = Len(ExpectedNames)

C4_Failure ==
    \A c \in Clients :
        LET r == req[c]
            n == req'[c]
        IN  (r.kind \in {"none", "ingest"} /\ n.kind = "ingest" /\ n # r
             /\ n.pc = "delay") =>
            /\ n.results = Append(r.results, LastResult(n))
            /\ r.pc # "upsert" =>
                  LastResult(n) = [name |-> ExpectedNames[n.k], chunks |-> 0,
                                   status |-> "error"]
            /\ LastResult(n).status \in {"processed", "error"}

\* C4: processAllDocuments returns one result per .pdf file of the listing, in
\* listing order, whichever documents fail; a step of processDocument that
\* fails (read, parse, chunk, createIndex, embed, storeChunk) gives that
\* document the result {name, chunks: 0, status: 'error'} and the run goes on
\* to the delay and the next file.
C4_FailureIsolation == []C4_Results /\ [][C4_Failure]_vars

\* the first document failed and the second was still processed
C4_Witness ==
    \E c \in Clients :
        /\ req[c].pc = "done"
        /\ Len(req[c].results) = 2
        /\ req[c].results[1].status = "error"
        /\ req[c].results[2].status = "processed"

C10_NoRollback ==
    \A c \in Clients :
        LET r == req[c]
            n == req'[c]
        IN  /\ (r.pc \in {"embed", "store", "upsert"} /\ n.pc = "delay"
                /\ LastResult(n).status = "error") =>
                  /\ store' = store
                  /\ \A j \in 0..(r.processedChunks - 1) :
                        (Basename(r.pdfFiles[r.k]) \o "-chunk-" \o ToString(j))
                            \in RowIds(store')
                  /\ LastResult(n) = [name |-> Basename(r.pdfFiles[r.k]),
                                      chunks |-> 0, status |-> "error"]
                  /\ n.k = r.k
            /\ (r.pc = "delay" /\ n # r) => n.pc = "done" \/ n.k = r.k + 1

\* C10: when processDocument fails after k chunks have been stored, the store
\* is left as it is (the k rows remain), the result is {name, chunks: 0,
\* status: 'error'} whatever k is, and the run goes on to the next file
\* without trying the document again.
C10_NoPartialRollback == [][C10_NoRollback]_vars

\* document "a" failed after its first chunk had been stored
C10_Witness ==
    \E c \in Clients :
        /\ req[c].pc = "delay"
        /\ req[c].k = 1
        /\ LastResult(req[c]).status = "error"
        /\ "a-chunk-0" \in RowIds(store)
        /\ \A o \in Clients \ {c} : req[o].pc = "idle"

C12_Order ==
    \A c \in Clients :
        LET r == req[c] IN
        r.kind = "ingest" =>
            /\ r.pc \in IngestPcs => Len(r.results) = r.k - 1
            /\ r.pc = "embed" =>
                  /\ r.i < Len(r.chunks)
                  /\ r.processedChunks = r.i
                  /\ Len(r.embeddings) = r.i
            /\ r.pc = "store" =>
                  /\ r.processedChunks = r.i
                  /\ Len(r.embeddings) = r.i + 1
            /\ r.pc = "upsert" => r.i = Len(r.chunks)

C12_Steps ==
    \A c \in Clients :
        LET r == req[c]
            n == req'[c]
        IN  n.kind = "ingest" /\ n # r =>
            /\ r.kind = "none" => n.k \in {0, 1}
            /\ (r.kind = "ingest" /\ n.k # r.k) =>
                  /\ r.pc = "delay"
                  /\ n.k = r.k + 1
                  /\ Len(r.results) = r.k
            /\ n.pc = "embed" =>
                  \/ r.pc = "createIndex" /\ n.i = 0
                  \/ /\ r.pc = "store"
                     /\ n.i = r.i + 1
                     /\ Len(n.embeddings) = r.i + 1
                     /\ (Basename(r.pdfFiles[r.k]) \o "-chunk-" \o ToString(r.i))
                            \in RowIds(store')
            /\ n.pc = "store" => r.pc = "embed" /\ n.i = r.i /\ n.k = r.k

\* C12: in one run, the file at position n+1 is entered only from the delay
\* that follows the result of the file at position n; chunk i+1 is embedded
\* only after chunk i has been embedded and its row stored; the run has one
\* operation outstanding at a time.
C12_Sequential == []C12_Order /\ [][C12_Steps]_vars

\* the second document is being embedded after the first one returned with
\* both its chunks processed
C12_Witness ==
    \E c \in Clients :
        /\ req[c].pc = "embed"
        /\ req[c].k = 2
        /\ req[c].results =
              <<[name |-> "a", chunks |-> Len(LongText), status |-> "processed"]>>

C15_Return ==
    \A c \in Clients :
        LET r == req[c]
            n == req'[c]
        IN  (r.pc = "upsert" /\ n.pc = "delay"
             /\ LastResult(n).status = "processed") =>
            LET d == Basename(r.pdfFiles[r.k])
                count == LastResult(n).chunks
            IN  /\ {w.id : w \in RowsOf(store', d)}
                      = {d \o "-chunk-" \o ToString(j) : j \in 0..(count - 1)}
                /\ \A w \in RowsOf(store', d) :
                      \E j \in 0..(count - 1) :
                          /\ w.id = d \o "-chunk-" \o ToString(j)
                          /\ w.content = r.chunks[j + 1].text

\* C15: when processDocument returns 'processed' with chunks = n for a
\* document D, the rows of D are exactly D-chunk-0 .. D-chunk-(n-1) with the
\* content of that run's chunks; no row of an earlier, longer version of D
\* is left.
C15_LatestRunOnly == [][C15_Return]_vars

\* the ids of a chunk list of document d
C16_Ids(d, chunks) == {d \o "-chunk-" \o ToString(j) : j \in 0..(Len(chunks) - 1)}

C16_BeforeUpsert ==
    \A c \in Clients :
        LET r == req[c] IN
        (r.kind = "ingest" /\ r.pc = "upsert") =>
            /\ r.processedChunks = Len(r.chunks)
            /\ Len(r.embeddings) = Len(r.chunks)
            /\ C16_Ids(Basename(r.pdfFiles[r.k]), r.chunks) \subseteq RowIds(store)

C16_Return ==
    /\ \A c \in Clients :
          LET r == req[c]
              n == req'[c]
          IN  (r.kind = "ingest" /\ n # r /\ n.pc = "delay"
               /\ LastResult(n).status = "processed") =>
              LET d == Basename(r.pdfFiles[r.k]) IN
              /\ r.pc = "upsert"
              /\ LastResult(n) = [name |-> d, chunks |-> Len(r.chunks),
                                  status |-> "processed"]
              /\ C16_Ids(d, r.chunks) \subseteq RowIds(store')
              /\ vindex'[d].ids = vindex[d].ids \cup C16_Ids(d, r.chunks)
    /\ \A d \in DocNames :
          vindex'[d].ids # vindex[d].ids =>
              \E c \in Clients :
                  /\ req[c].pc = "upsert"
                  /\ Basename(req[c].pdfFiles[req[c].k]) = d
                  /\ req'[c].pc = "delay"

\* C16: processDocument returns 'processed' only from the batch upsert;
\* the chunks it reports is the length of the chunk list, a row exists for
\* each of the list's ids, and exactly those ids are added to the document's
\* vector index; the upsert is issued only when every chunk has been
\* embedded and stored.
C16_ProcessedComplete == []C16_BeforeUpsert /\ [][C16_Return]_vars

\* the long version of document "a" has been processed: a row and an index
\* entry for each of its chunks
C16_Witness ==
    \E c \in Clients :
        /\ req[c].pc = "delay"
        /\ LastResult(req[c]) =
              [name |-> "a", chunks |-> Len(LongText), status |-> "processed"]
        /\ vindex["a"].ids = C16_Ids("a", LongText)
        /\ C16_Ids("a", LongText) \subseteq RowIds(store)

-----------------------------------------------------------------------------
(* Properties of the chat endpoint *)

IsNonEmptyString(m) == m.t = "string" /\ m.v # ""

ChatPcs == {"qembed", "search", "complete", "stream"}

C5_Rejected ==
    \A c \in Clients :
        LET r == req[c] IN
        r.kind = "chat" /\ ~IsNonEmptyString(r.message) =>
            /\ r.pc = "done"
            /\ r.res.status = 400
            /\ r.res.ctype = "application/json"
            /\ r.res.ended
            /\ r.res.body =
                  <<[error |-> "Invalid request: message is required and must be a string"]>>
            /\ r.calls = <<>>

C5_NoEffect ==
    \A c \in Clients :
        (req[c].pc = "idle" /\ req'[c].kind = "chat"
         /\ ~IsNonEmptyString(req'[c].message))
        => store' = store /\ vindex' = vindex

\* C5: a chat request whose message is missing, not a string or the empty
\* string is answered 400 with a JSON error; no embedding, retrieval or
\* completion call is made for it and the stores are unchanged.
C5_InvalidMessage == []C5_Rejected /\ [][C5_NoEffect]_vars

\* a truthy message that is not a string has been rejected
C5_Witness ==
    \E c \in Clients :
        /\ req[c].kind = "chat"
        /\ req[c].message = JsValue("number", "7")
        /\ req[c].res.status = 400

C8_Buffered ==
    \A c \in Clients :
        LET r == req[c] IN
        r.kind = "chat" =>
            /\ r.pc \in ChatPcs =>
                  r.res.body = <<>> /\ ~r.res.headersSent /\ ~r.res.ended
            /\ r.pc = "stream" => r.response \o AnswerOf(r.stream) = r.answer

C8_Frame ==
    \A c \in Clients :
        LET r == req[c]
            n == req'[c]
        IN  (r.kind = "chat" /\ r.sse /\ r.pc = "stream" /\ n.pc = "done"
             /\ n.res.status = 200) =>
            /\ r.stream = <<>>
            /\ n.res.body = <<[chunk |-> r.answer, done |-> TRUE,
                               sources |-> r.relevantChunks]>>
            /\ n.res.ctype = "text/event-stream"
            /\ n.res.ended

\* C8: a valid text/event-stream chat request whose generateResponse succeeds
\* gets exactly one frame and then the end of the response; nothing is
\* written before the whole completion is buffered, and the frame carries the
\* complete answer, done = true and the retrieved sources.
C8_SingleFrame == []C8_Buffered /\ [][C8_Frame]_vars

\* a stream of two deltas has been answered in one frame with sources
C8_Witness ==
    \E c \in Clients :
        /\ req[c].kind = "chat"
        /\ req[c].sse
        /\ req[c].pc = "done"
        /\ req[c].res.status = 200
        /\ req[c].res.body[1].chunk = "AA"
        /\ Len(req[c].res.body[1].sources) >= 2

C13_State ==
    \A c \in Clients :
        LET r == req[c] IN
        r.kind = "chat" =>
            /\ r.pc \in ChatPcs =>
                  /\ r.res.status = 0
                  /\ ~r.res.headersSent
                  /\ r.res.body = <<>>
                  /\ ~r.res.ended
                  /\ r.sse => r.res.ctype = "text/event-stream"
            /\ r.pc = "done" =>
                  /\ r.res.status \in {200, 400, 500}
                  /\ r.res.headersSent
                  /\ Len(r.res.body) = 1
                  /\ r.res.ended

C13_Failed(res) ==
    /\ res.status = 500
    /\ res.body = <<ErrorBody>>
    /\ res.wire = <<"json">>
    /\ res.ended

C13_Steps ==
    \A c \in Clients :
        LET r == req[c]
            n == req'[c]
        IN  r.kind = "chat" =>
            /\ r.pc = "done" => n = r
            /\ (r.pc \in {"qembed", "search", "complete"} /\ n.pc = "done") =>
                  C13_Failed(n.res)
            /\ (r.pc = "stream" /\ n.pc = "done") =>
                  \/ C13_Failed(n.res)
                  \/ r.stream = <<>> /\ n.res.status = 200

C13_Eventually ==
    \A c \in Clients : (req[c].kind = "chat") ~> (req[c].pc = "done")

\* C13: a chat request gets one answer and no more, and gets it when every
\* call the handler awaits settles; a failure of generateResponse, in the
\* plain and in the text/event-stream mode, is answered with status 500 and
\* the JSON error body: until then nothing was sent, neither a status nor a
\* frame, the event-stream headers being only set.
C13_AnsweredOnce == []C13_State /\ [][C13_Steps]_vars /\ C13_Eventually

\* a text/event-stream request whose completion failed was answered 500 with
\* the JSON error body
C13_Witness ==
    \E c \in Clients :
        /\ req[c].kind = "chat"
        /\ req[c].sse
        /\ req[c].pc = "done"
        /\ req[c].calls = <<"embed", "search", "complete">>
        /\ C13_Failed(req[c].res)

C9_Calls ==
    \A c \in Clients :
        LET r == req[c] IN
        r.kind = "chat" =>
            /\ r.pc = "qembed" => r.calls = <<"embed">>
            /\ r.pc = "search" => r.calls = <<"embed", "search">>
            /\ r.pc \in {"complete", "stream"} =>
                  r.calls = <<"embed", "search", "complete">>
            /\ r.pc = "done" /\ r.res.status = 200 =>
                  r.calls = <<"embed", "search", "complete">>
            /\ r.pc = "done" /\ r.res.status = 400 => r.calls = <<>>

C9_Steps ==
    \A c \in Clients :
        LET r == req[c]
            n == req'[c]
        IN  r.kind = "chat" =>
            /\ (r.pc = "search" /\ n.pc = "complete") =>
                  /\ Len(n.relevantChunks) = Min(5, RowCount(store))
                  /\ \A j \in 1..Len(n.relevantChunks) :
                        /\ n.relevantChunks[j].id \in RowIds(store)
                        /\ \A l \in 1..Len(n.relevantChunks) :
                              n.relevantChunks[l].id = n.relevantChunks[j].id => l = j
            /\ (r.pc \in {"complete", "stream"} /\ n.pc = "stream") =>
                  n.relevantChunks = r.relevantChunks
            /\ (r.pc = "stream" /\ n.pc = "done" /\ n.res.status = 200) =>
                  n.res.body[1].sources = r.relevantChunks
            /\ (r.pc \in {"qembed", "search"} /\ n.pc = "done") =>
                  /\ n.res.status = 500
                  /\ \A j \in 1..Len(n.calls) : n.calls[j] # "complete"

-----------------------------------------------------------------------------
(* Properties of the Chat component *)

\* the answer text and the sources of a successful response body
C14_Answer(b) == IF "response" \in DOMAIN b THEN b.response ELSE b.chunk

C14_Format ==
    LET res == req[UiClient].res IN
    (ui.pc # "idle" /\ res.status = 200) =>
        \A j \in 1..Len(res.wire) : res.wire[j] = "data"

C14_Shown ==
    LET res == req[UiClient].res IN
    (ui.pc = "done" /\ res.status = 200) =>
        /\ ~ui.isLoading
        /\ LastIsAssistant(ui.messages)
        /\ ui.messages[Len(ui.messages)].content = C14_Answer(res.body[1])
        /\ ui.messages[Len(ui.messages)].sources = res.body[1].sources

\* C14: a successful answer to the question the Chat component posted is
\* framed the way processStream parses it (`data: ` lines), and once the
\* component has read it the last message is an assistant message with the
\* answer text and its sources and isLoading is false.
C14_EndToEnd == C14_Format /\ C14_Shown

-----------------------------------------------------------------------------
(* Properties of the vector store adapter and of the public methods *)

C3_Ids(out) == {out[j].id : j \in 1..Len(out)}

C11_Effect(s, t, chunk) ==
    IF chunk.id \in RowIds(s)
    THEN \E old \in Rows(s) :
            /\ old.id = chunk.id
            /\ Rows(t) = (Rows(s) \ {old}) \cup
                             {[id |-> old.id, content |-> chunk.content,
                               document |-> old.document, page |-> old.page,
                               embedding |-> chunk.embedding]}
            /\ RowCount(t) = RowCount(s)
    ELSE /\ Rows(t) = Rows(s) \cup {chunk}
         /\ RowCount(t) = RowCount(s) + 1

C11_DirectCall ==
    /\ api'.op = "storeChunk"
    /\ api.op = "storeChunk" => api.arg # api'.arg \/ api.failed # api'.failed

C11_Step ==
    /\ C11_DirectCall =>
          IF api'.failed THEN store' = store
          ELSE C11_Effect(store, store', api'.arg)
    /\ store' # store =>
          \/ C11_DirectCall /\ ~api'.failed
          \/ /\ req[Caller].pc = "store"
             /\ C11_Effect(store, store', DocumentChunk(req[Caller]))

\* C11: the table changes only by storeChunk; storeChunk with an id already
\* in the table replaces the content and the embedding of that row, keeps
\* its document and page even when the chunk carries others, and leaves
\* every other row as it is; storeChunk with a new id adds that one row and
\* leaves every other row as it is.
C11_StoreChunkFrame == [][C11_Step]_vars

\* a chunk stored under an existing id with another document and page: the
\* row has the new content and embedding and its first document and page,
\* next to a row of another id
C11_Witness ==
    /\ api.op = "storeChunk"
    /\ ~api.failed
    /\ \E r \in Rows(store) :
          /\ r.id = api.arg.id
          /\ r.content = api.arg.content
          /\ r.embedding = api.arg.embedding
          /\ r.document # api.arg.document
          /\ r.page # api.arg.page
    /\ \E o \in Rows(store) : o.id # api.arg.id

InFlight == {c \in Clients : req[c].pc \notin {"idle", "done"}}

C6_OneInFlight == Cardinality(InFlight) <= 1

C6_NoPartialRead ==
    \A c \in Clients :
        (req[c].pc = "search" /\ req'[c].pc = "complete") =>
            ~\E o \in Clients :
                /\ req[o].kind = "ingest"
                /\ req[o].pc \in {"embed", "store"}
                /\ req[o].processedChunks > 0

\* C6: at any moment at most one request is being processed, and a chat never
\* retrieves while an ingestion run is part-way through a document's chunks.
C6_SingleRequestAtATime == []C6_OneInFlight /\ [][C6_NoPartialRead]_vars

AdapterMethods ==
    {"storeChunk", "searchSimilarChunks", "getProcessedDocuments",
     "initializeDatabase"}

C7_Outcomes ==
    /\ api.op # "none" /\ api.failed =>
          /\ api.op \in {"searchSimilarContent", "listIndexes"} =>
                ~api.threw /\ api.out = {}
          /\ api.op = "getIndexStats" => ~api.threw /\ api.out = "null"
          /\ api.op \in AdapterMethods => api.threw
    /\ req[Caller].kind = "ingest" => req[Caller].res.status \in {0, 200, 400}

C7_Steps ==
    LET r == req[Caller]
        n == req'[Caller]
    IN  /\ (r.pc \in (IngestPcs \ {"upsert"}) /\ n.pc = "delay") =>
              LastResult(n) = [name |-> Basename(r.pdfFiles[r.k]), chunks |-> 0,
                               status |-> "error"]
        /\ (r.pc \in {"qembed", "search", "complete"} /\ n.pc = "done") =>
              n.res.status = 500
        /\ (r.pc = "stream" /\ r.stream # <<>> /\ n.pc = "done") =>
              n.res.status = 500

\* C7 as amended: the workflow's methods catch a failure at their own
\* boundary (processDocument gives the error result, processAllDocuments
\* never fails its caller, searchSimilarContent and listIndexes return an
\* empty list, getIndexStats returns null); the adapter's methods and
\* generateResponse do not: a failure of their external call reaches the
\* caller, and the chat handler answers it with 500.
C7_CatchOrPropagate == []C7_Outcomes /\ [][C7_Steps]_vars

\* a direct storeChunk whose query failed has rejected
C7_Witness == api.op = "storeChunk" /\ api.failed /\ api.threw

\* C7 as stated: no public method lets a failure reach its caller.
C7_AllCatch ==
    /\ api.op # "none" => ~api.threw
    /\ \A c \in Clients : req[c].kind = "chat" => req[c].res.status # 500

====
